---- MODULE Spec2Model ----
(***************************************************************************)
(* A model of sloc (main.go): the line classifier sloc(), the directory    *)
(* walk walk(), the table printer print() and main().                      *)
(*                                                                         *)
(* Strings are sequences of one-character strings, so that filepath.Ext,   *)
(* filepath.Base, strings.Split, strings.TrimSpace, strings.HasPrefix, the *)
(* block-comment regular expression and len() are computed on characters.  *)
(***************************************************************************)
EXTENDS Integers, Sequences, FiniteSets, TLC

VARIABLES
    \* ---- one call of sloc() on its own (SpecSloc) ----
    slocPath,     \* the filePath argument
    slocFile,     \* what os.ReadFile(filePath) finds: [ok, bytes]
    slocRes,      \* the call's result [count, err, read], or NoResult before the call
    \* ---- one run of the program (SpecWalk) ----
    root,         \* the root argument of walk
    tree,         \* the entry os.Lstat(root) finds, or NoEntry
    ignoreFlag,   \* the value of -i
    briefFlag,    \* the value of -b
    ignore,       \* the package variable ignore
    pc,           \* where main is
    todo,         \* WalkDir's pending entries: a stack of directory listings
    items,        \* walk's local items
    total,        \* walk's local total
    pathMaxLen,   \* walk's local pathMaxLen
    walkErr,      \* the error WalkDir returned, or Nil
    ret,          \* what walk returned: [items, total, pathMaxLen, err], or NoReturn
    visited,      \* the calls of the WalkDir callback, in order: [path, err, ret]
    fsOps,        \* the file-system calls made, in order: [op, path, ok]
    stdout,       \* what was written to standard output
    stderr,       \* what was written to standard error
    exitStatus    \* the process's exit status, or NotExited

slocVars == <<slocPath, slocFile, slocRes>>
walkVars == <<root, tree, ignoreFlag, briefFlag, ignore, pc, todo, items, total,
              pathMaxLen, walkErr, ret, visited, fsOps, stdout, stderr, exitStatus>>
vars == <<slocVars, walkVars>>

Nil == "nil"
NoResult == [count |-> -1, err |-> "none", read |-> FALSE]
NotExited == -1
NoReturn == [items |-> <<>>, total |-> 0, pathMaxLen |-> 0, err |-> "none"]

\* A file-system entry: [name, kind, ok, bytes, kids]. kind is "file" (a
\* regular file), "dir", "link" (a symlink or any other non-regular entry) or
\* "missing"; ok tells whether os.ReadFile (a file) or os.ReadDir (a
\* directory) succeeds; kids is the set of a directory's entries.
Entry(n, k, ok, b, kids) ==
    [name |-> n, kind |-> k, ok |-> ok, bytes |-> b, kids |-> kids]

NoEntry == Entry(<<>>, "missing", FALSE, <<>>, {})

\* ------------------------------------------------------------------ bounds
\* The longest enumerated file content, in tokens.
MaxTokens == 4
\* The most entries below the root of an enumerated directory tree.
MaxEntries == 3

\* ----------------------------------------------------------------- strings
NL == "\n"
TAB == "\t"
CR == "\r"
SP == " "
SLASH == "/"
DOT == "."
QUOTE == "\""

\* unicode.IsSpace over the characters of the model (U+0085 and U+00A0, the
\* other two white-space characters of Latin-1, are not in the alphabet).
WhiteSpace == {SP, TAB, NL, CR}

\* The byte of a character: the order os.ReadDir sorts names by.
ByteOf(c) ==
    CASE c = TAB -> 9 [] c = NL -> 10 [] c = CR -> 13 [] c = SP -> 32
      [] c = "!" -> 33 [] c = QUOTE -> 34 [] c = "#" -> 35 [] c = "%" -> 37
      [] c = "*" -> 42 [] c = "," -> 44 [] c = "-" -> 45 [] c = DOT -> 46
      [] c = SLASH -> 47 [] c = ";" -> 59 [] c = "<" -> 60 [] c = ">" -> 62
      [] c = "[" -> 91 [] c = "]" -> 93 [] c = "_" -> 95
      [] c = "a" -> 97 [] c = "b" -> 98 [] c = "c" -> 99 [] c = "d" -> 100
      [] c = "e" -> 101 [] c = "f" -> 102 [] c = "g" -> 103 [] c = "h" -> 104
      [] c = "i" -> 105 [] c = "j" -> 106 [] c = "l" -> 108 [] c = "m" -> 109
      [] c = "n" -> 110 [] c = "o" -> 111 [] c = "p" -> 112 [] c = "r" -> 114
      [] c = "s" -> 115 [] c = "t" -> 116 [] c = "u" -> 117 [] c = "v" -> 118
      [] c = "x" -> 120 [] c = "y" -> 121 [] c = "z" -> 122

\* strings.HasPrefix(s[at-1:], p), 1-based.
HasPrefixAt(s, at, p) ==
    /\ at + Len(p) - 1 <= Len(s)
    /\ \A k \in 1..Len(p) : s[at + k - 1] = p[k]

\* strings.HasPrefix
HasPrefix(s, p) == HasPrefixAt(s, 1, p)

\* strings.TrimSpace
RECURSIVE TrimLeft(_)
TrimLeft(s) ==
    IF s # <<>> /\ Head(s) \in WhiteSpace THEN TrimLeft(Tail(s)) ELSE s

RECURSIVE TrimRight(_)
TrimRight(s) ==
    IF s # <<>> /\ s[Len(s)] \in WhiteSpace
    THEN TrimRight(SubSeq(s, 1, Len(s) - 1)) ELSE s

TrimSpace(s) == TrimRight(TrimLeft(s))

\* strings.Split(s, sep) for a one-character sep: one more piece than
\* separators, so Split("") is one empty piece.
RECURSIVE SplitFrom(_, _, _)
SplitFrom(s, sep, cur) ==
    IF s = <<>> THEN <<cur>>
    ELSE IF Head(s) = sep THEN <<cur>> \o SplitFrom(Tail(s), sep, <<>>)
    ELSE SplitFrom(Tail(s), sep, Append(cur, Head(s)))

Split(s, sep) == SplitFrom(s, sep, <<>>)

\* filepath.Ext: the suffix from the last dot of the last path element.
RECURSIVE ExtFrom(_, _)
ExtFrom(path, i) ==
    IF i < 1 \/ path[i] = SLASH THEN <<>>
    ELSE IF path[i] = DOT THEN SubSeq(path, i, Len(path))
    ELSE ExtFrom(path, i - 1)

Ext(path) == ExtFrom(path, Len(path))

\* filepath.Base: the last element, trailing slashes dropped.
RECURSIVE StripTrailingSlashes(_)
StripTrailingSlashes(path) ==
    IF Len(path) > 0 /\ path[Len(path)] = SLASH
    THEN StripTrailingSlashes(SubSeq(path, 1, Len(path) - 1)) ELSE path

RECURSIVE LastElem(_, _)
LastElem(path, i) ==
    IF i < 1 \/ path[i] = SLASH THEN SubSeq(path, i + 1, Len(path))
    ELSE LastElem(path, i - 1)

Base(path) ==
    IF path = <<>> THEN <<DOT>>
    ELSE LET p == StripTrailingSlashes(path) IN
         IF p = <<>> THEN <<SLASH>> ELSE LastElem(p, Len(p))

\* filepath.Join(dir, name) for a clean dir and a plain name.
Join(dir, name) == IF dir = <<DOT>> THEN name ELSE dir \o <<SLASH>> \o name

\* Variant: the path is kept as WalkDir gave it.
RelKeepsRoot(base, targ) == targ

\* filepath.Rel(base, targ) for targ = base or a path WalkDir built below it.
Rel(base, targ) ==
    IF targ = base THEN <<DOT>>
    ELSE IF base = <<DOT>> THEN targ
    ELSE SubSeq(targ, Len(base) + 2, Len(targ))

\* ------------------------------------------------------ the language table
LangInfo(i, s, e) == [inline |-> i, start |-> s, end |-> e]

CStyle == LangInfo(<<"/", "/">>, <<"/", "*">>, <<"*", "/">>)
HashOnly == LangInfo(<<"#">>, <<>>, <<>>)

supported ==
    (<<".", "c">> :> CStyle)
    @@ (<<".", "c", "s", "s">> :> LangInfo(<<>>, <<"/", "*">>, <<"*", "/">>))
    @@ (<<".", "g", "o">> :> CStyle)
    @@ (<<".", "h">> :> CStyle)
    @@ (<<".", "h", "t", "m", "l">>
            :> LangInfo(<<>>, <<"<", "!", "-", "-">>, <<"-", "-", ">">>))
    @@ (<<".", "j", "s">> :> CStyle)
    @@ (<<".", "j", "s", "x">> :> CStyle)
    @@ (<<".", "l", "u", "a">>
            :> LangInfo(<<"-", "-">>, <<"-", "-", "[", "[">>, <<"]", "]">>))
    @@ (<<".", "p", "y">>
            :> LangInfo(<<"#">>, <<QUOTE, QUOTE, QUOTE>>, <<QUOTE, QUOTE, QUOTE>>))
    @@ (<<".", "s", "c", "m">> :> LangInfo(<<";">>, <<>>, <<>>))
    @@ (<<".", "s", "c", "s", "s">> :> CStyle)
    @@ (<<".", "s", "h">> :> HashOnly)
    @@ (<<".", "t", "e", "x">> :> LangInfo(<<"%">>, <<>>, <<>>))
    @@ (<<".", "t", "s">> :> CStyle)
    @@ (<<".", "t", "s", "x">> :> CStyle)
    @@ (<<".", "v", "i", "m">> :> LangInfo(<<QUOTE>>, <<>>, <<>>))
    @@ (<<".", "z", "s", "h">> :> HashOnly)

\* ------------------------------------------------------------------- sloc
\* The least q >= from at which e occurs in s, or 0.
RECURSIVE IndexFrom(_, _, _)
IndexFrom(s, from, e) ==
    IF from + Len(e) - 1 > Len(s) THEN 0
    ELSE IF HasPrefixAt(s, from, e) THEN from
    ELSE IndexFrom(s, from + 1, e)

\* The greatest q >= from at which e occurs in s, or 0.
RECURSIVE LastIndexFrom(_, _, _)
LastIndexFrom(s, from, e) ==
    LET next == IndexFrom(s, from, e) IN
    IF next = 0 THEN 0
    ELSE LET later == LastIndexFrom(s, next + 1, e) IN
         IF later = 0 THEN next ELSE later

\* regexp.MustCompile(QuoteMeta(start) + `[\s\S]*?` + QuoteMeta(end))
\*     .ReplaceAllString(content, ""):
\* leftmost matches, each from a literal start to the first literal end that
\* begins at or after the end of that start; the scan resumes after a match.
RECURSIVE ReplaceAllFrom(_, _, _, _)
ReplaceAllFrom(s, p, start, end) ==
    IF p > Len(s) THEN <<>>
    ELSE LET q == IF HasPrefixAt(s, p, start)
                  THEN IndexFrom(s, p + Len(start), end) ELSE 0
         IN  IF q # 0 THEN ReplaceAllFrom(s, q + Len(end), start, end)
             ELSE <<s[p]>> \o ReplaceAllFrom(s, p + 1, start, end)

\* Variant: a greedy match, to the last block end.
RECURSIVE ReplaceAllGreedyFrom(_, _, _, _)
ReplaceAllGreedyFrom(s, p, start, end) ==
    IF p > Len(s) THEN <<>>
    ELSE LET q == IF HasPrefixAt(s, p, start)
                  THEN LastIndexFrom(s, p + Len(start), end) ELSE 0
         IN  IF q # 0 THEN ReplaceAllGreedyFrom(s, q + Len(end), start, end)
             ELSE <<s[p]>> \o ReplaceAllGreedyFrom(s, p + 1, start, end)

ReplaceAllGreedy(s, start, end) == ReplaceAllGreedyFrom(s, 1, start, end)

ReplaceAll(s, start, end) == ReplaceAllFrom(s, 1, start, end)

\* main.go:86-93: content after the block comments are removed.
StripBlocks(content, lang) ==
    IF lang.start # <<>> /\ lang.end # <<>>
    THEN ReplaceAll(content, lang.start, lang.end)
    ELSE content

\* Variant: the blank-line test alone.
CountsAsCodeNoInlineTest(line, lang) == TrimSpace(line) # <<>>

\* main.go:102: the test of one line.
CountsAsCode(line, lang) ==
    LET trimmedLine == TrimSpace(line) IN
    /\ trimmedLine # <<>>
    /\ (lang.inline = <<>> \/ ~HasPrefix(trimmedLine, lang.inline))

\* main.go:97-105: the counting loop.
RECURSIVE CountLines(_, _)
CountLines(lines, lang) ==
    IF lines = <<>> THEN 0
    ELSE (IF CountsAsCode(Head(lines), lang) THEN 1 ELSE 0)
         + CountLines(Tail(lines), lang)

\* Variant: the file is read before the extension is looked up.
slocReadsFirst(filePath, file) ==
    IF ~file.ok THEN [count |-> 0, err |-> "read", read |-> TRUE]
    ELSE IF Ext(filePath) \notin DOMAIN supported
    THEN [count |-> 0, err |-> "unsupported", read |-> TRUE]
    ELSE [count |-> CountLines(Split(StripBlocks(file.bytes,
                        supported[Ext(filePath)]), NL), supported[Ext(filePath)]),
          err |-> Nil, read |-> TRUE]

\* sloc(filePath), with file what os.ReadFile(filePath) finds. read tells
\* whether os.ReadFile was called.
sloc(filePath, file) ==
    IF Ext(filePath) \notin DOMAIN supported
    THEN [count |-> 0, err |-> "unsupported", read |-> FALSE]
    ELSE IF ~file.ok
    THEN [count |-> 0, err |-> "read", read |-> TRUE]
    ELSE LET commStr == supported[Ext(filePath)]
             content == StripBlocks(file.bytes, commStr)
             lines == Split(content, NL)
         IN  [count |-> CountLines(lines, commStr), err |-> Nil, read |-> TRUE]

\* ------------------------------------------- SpecSloc: one call of sloc()
RECURSIVE Strings(_, _)
Strings(T, n) ==
    IF n = 0 THEN {<<>>}
    ELSE LET S == Strings(T, n - 1) IN S \cup {t \o s : t \in T, s \in S}

\* The pieces file contents are built from: the language's markers, each
\* character of them, a blank, a newline and a letter.
Tokens(lang) ==
    LET marks == {lang.inline, lang.start, lang.end} \ {<<>>} IN
    marks \cup UNION {{<<m[k]>> : k \in 1..Len(m)} : m \in marks} \cup {<<SP>>, <<NL>>, <<"x">>}

\* Longer contents, written out: a block comment on lines 2-4 between two
\* lines of code, a file that is one block comment, trailing comments, white
\* space only, a block comment joining two lines, an unfinished block
\* comment, and comment lines with tabs and CR LF.
Fixtures(lang) ==
    LET s == lang.start
        e == lang.end
        i == lang.inline
    IN  { <<"x", NL>> \o s \o <<NL, "x", NL>> \o e \o <<NL, "x">>,
          s \o <<SP, "x", NL, SP, "x", SP>> \o e,
          <<"x", SP>> \o i \o <<SP, "y">>,
          <<"x", SP>> \o s \o <<"y">> \o e,
          <<SP, TAB, NL, CR, NL, SP, SP>>,
          <<"x", SP>> \o s \o <<NL>> \o e \o <<SP, "y">>,
          <<"x", NL>> \o s \o <<"y", NL, "y">>,
          <<TAB>> \o i \o <<"x", CR, NL, SP>> \o i \o s \o <<"x">> \o e \o <<"y">>,
          (IF i = <<>> THEN <<>> ELSE <<i[1]>>) \o s \o <<"x">> \o e \o <<"y">>,
          s \o <<SP, "a", SP>> \o e \o <<SP, "b">> }

SlocExts == DOMAIN supported

SlocPaths ==
    {<<"t", "/", "x">> \o ext : ext \in SlocExts}
    \cup { <<"t", "/", "x">>, <<"t", "/", "x", ".", "p", "d", "f">>,
           <<"t", ".", "g", "o", "/", "x">> }

Contents(filePath) ==
    IF Ext(filePath) \in DOMAIN supported
    THEN Strings(Tokens(supported[Ext(filePath)]), MaxTokens)
         \cup Fixtures(supported[Ext(filePath)])
    ELSE {<<>>, <<"x", NL, "x">>}

Unreadable == [ok |-> FALSE, bytes |-> <<>>]

IdleWalk ==
    /\ root = <<>> /\ tree = NoEntry /\ ignoreFlag = <<>> /\ briefFlag = FALSE
    /\ ignore = <<>> /\ pc = "idle" /\ todo = <<>> /\ items = <<>> /\ total = 0
    /\ pathMaxLen = 0 /\ walkErr = Nil /\ ret = NoReturn /\ visited = <<>>
    /\ fsOps = <<>> /\ stdout = <<>> /\ stderr = <<>> /\ exitStatus = NotExited

InitSloc ==
    /\ slocPath \in SlocPaths
    /\ slocFile \in {Unreadable} \cup {[ok |-> TRUE, bytes |-> b] : b \in Contents(slocPath)}
    /\ slocRes = NoResult
    /\ IdleWalk

CallSloc ==
    /\ pc = "idle"
    /\ slocRes = NoResult
    /\ slocRes' = sloc(slocPath, slocFile)
    /\ UNCHANGED <<slocPath, slocFile, walkVars>>

NextSloc == CallSloc

SpecSloc == InitSloc /\ [][NextSloc]_vars

\* ------------------------------------------------------------ walk, main
\* main.go:16-21
builtinIgnore ==
    << <<"n", "o", "d", "e", "_", "m", "o", "d", "u", "l", "e", "s">>,
       <<"c", "o", "v", "e", "r", "a", "g", "e">>,
       <<".", "g", "i", "t">>,
       <<".", "n", "e", "x", "t">> >>

\* slices.Contains
Contains(list, x) == \E k \in 1..Len(list) : list[k] = x

\* main.go:206-208: the names of -i, trimmed, appended to ignore.
RECURSIVE TrimAll(_)
TrimAll(entries) ==
    IF entries = <<>> THEN <<>>
    ELSE <<TrimSpace(Head(entries))>> \o TrimAll(Tail(entries))

withIgnoreFlag(ig, flag) == ig \o TrimAll(Split(flag, ","))

\* Byte-wise string order, the order of os.ReadDir's result.
RECURSIVE StrLess(_, _)
StrLess(a, b) ==
    IF b = <<>> THEN FALSE
    ELSE IF a = <<>> THEN TRUE
    ELSE IF ByteOf(Head(a)) # ByteOf(Head(b)) THEN ByteOf(Head(a)) < ByteOf(Head(b))
    ELSE StrLess(Tail(a), Tail(b))

\* os.ReadDir(path) of a readable directory: its entries sorted by name,
\* each with the path WalkDir joins for it.
RECURSIVE SortedEntries(_, _)
SortedEntries(dir, kids) ==
    IF kids = {} THEN <<>>
    ELSE LET first == CHOOSE k \in kids :
                        \A o \in kids : o = k \/ StrLess(k.name, o.name)
         IN  <<[path |-> Join(dir, first.name), d |-> first]>>
             \o SortedEntries(dir, kids \ {first})

ReadDir(dir, kids) == SortedEntries(dir, kids)

\* Variant: an ignored directory is not pruned.
IgnoredNoSkip(d) == Nil

\* main.go:126-129: what the callback returns for an ignored entry.
Ignored(d) == IF d.kind = "dir" THEN "SkipDir" ELSE Nil

\* Variant: the last length, not the greatest.
NewPathMaxLenLast(l, cur) == l

\* main.go:145-147
NewPathMaxLen(l, cur) == IF l > cur THEN l ELSE cur

\* main.go:120-152: one call of the WalkDir callback, with st walk's locals
\* [items, total, pathMaxLen]. Gives what it returns (ret: Nil, "SkipDir"
\* or an error), the locals after it, and the file reads it made.
walkFn(path, d, err, ig, rt, st) ==
    LET out(r, st2, ops) == [ret |-> r, st |-> st2, ops |-> ops] IN
    IF err # Nil THEN out(err, st, <<>>)
    ELSE IF Contains(ig, Base(path)) THEN out(Ignored(d), st, <<>>)
    ELSE IF d.kind = "file"
    THEN LET r == sloc(path, [ok |-> d.ok, bytes |-> d.bytes])
             ops == IF r.read
                    THEN <<[op |-> "ReadFile", path |-> path, ok |-> d.ok]>>
                    ELSE <<>>
         IN  IF r.err # Nil /\ r.err # "unsupported" THEN out(r.err, st, ops)
             ELSE IF r.err # "unsupported"
             THEN LET rel == Rel(rt, path) IN
                  out(Nil,
                      [items |-> Append(st.items, [path |-> rel, sloc |-> r.count]),
                       total |-> st.total + r.count,
                       pathMaxLen |-> NewPathMaxLen(Len(rel), st.pathMaxLen)],
                      ops)
             ELSE out(Nil, st, ops)
    ELSE out(Nil, st, <<>>)

\* Variant: the locals are returned beside the error.
walkResultPartial(its, tot, pml, err) ==
    [items |-> its, total |-> tot, pathMaxLen |-> pml, err |-> err]

\* main.go:153-157: what walk returns.
walkResult(its, tot, pml, err) ==
    IF err # Nil
    THEN [items |-> <<>>, total |-> 0, pathMaxLen |-> 0, err |-> err]
    ELSE [items |-> its, total |-> tot, pathMaxLen |-> pml, err |-> Nil]

\* main.go:160-170, with Go's division (it truncates toward zero).
RECURSIVE intlenLoop(_, _)
intlenLoop(n, count) ==
    IF n = 0 THEN count
    ELSE intlenLoop(IF n > 0 THEN n \div 10 ELSE -((-n) \div 10), count + 1)

intlen(n) == IF n = 0 THEN 1 ELSE intlenLoop(n, 0)

TotalLabel == <<"T", "o", "t", "a", "l">>

\* Variant: pathMaxLen as it is.
PrintWidthNoTotal(pml) == pml

\* main.go:229: the width main passes to print.
PrintWidth(pml) == IF Len(TotalLabel) > pml THEN Len(TotalLabel) ELSE pml

\* main.go:172-199: the lines print writes, each with the counts it passes
\* to strings.Repeat.
RECURSIVE printItems(_, _, _)
printItems(its, pml, slocMaxLen) ==
    IF its = <<>> THEN <<>>
    ELSE <<[kind |-> "row", path |-> Head(its).path, sloc |-> Head(its).sloc,
            repeats |-> <<pml - Len(Head(its).path),
                          slocMaxLen - intlen(Head(its).sloc)>>]>>
         \o printItems(Tail(its), pml, slocMaxLen)

printLines(its, tot, pml) ==
    LET slocMaxLen == intlen(tot)
        hline == [kind |-> "border", path |-> <<>>, sloc |-> 0,
                  repeats |-> <<pml + 3, slocMaxLen>>]
    IN  <<hline>> \o printItems(its, pml, slocMaxLen) \o <<hline>>
        \o printItems(<<[path |-> TotalLabel, sloc |-> tot]>>, pml, slocMaxLen)
        \o <<hline>>

\* strings.Repeat panics on a negative count.
Panics(line) == \E k \in 1..Len(line.repeats) : line.repeats[k] < 0

\* The lines written before the first line that panics (all, if none does).
RECURSIVE UntilPanic(_)
UntilPanic(lines) ==
    IF lines = <<>> \/ Panics(Head(lines)) THEN <<>>
    ELSE <<Head(lines)>> \o UntilPanic(Tail(lines))

\* Variant: no exit on an empty result.
mainOutcomeNoEmptyCheck(r, brief) ==
    IF r.err # Nil
    THEN [stdout |-> <<>>, stderr |-> <<r.err>>, exit |-> 1]
    ELSE IF brief
    THEN [stdout |-> <<[kind |-> "total", path |-> <<>>, sloc |-> r.total,
                        repeats |-> <<>>]>>,
          stderr |-> <<>>, exit |-> 0]
    ELSE [stdout |-> printLines(r.items, r.total, PrintWidth(r.pathMaxLen)),
          stderr |-> <<>>, exit |-> 0]

\* main.go:217-231: what main does with walk's result r.
mainOutcome(r, brief) ==
    IF r.err # Nil
    THEN [stdout |-> <<>>, stderr |-> <<r.err>>, exit |-> 1]
    ELSE IF Len(r.items) = 0
    THEN [stdout |-> <<>>, stderr |-> <<>>, exit |-> 0]
    ELSE IF brief
    THEN [stdout |-> <<[kind |-> "total", path |-> <<>>, sloc |-> r.total,
                        repeats |-> <<>>]>>,
          stderr |-> <<>>, exit |-> 0]
    ELSE LET lines == printLines(r.items, r.total, PrintWidth(r.pathMaxLen)) IN
         IF \E k \in 1..Len(lines) : Panics(lines[k])
         THEN [stdout |-> UntilPanic(lines), stderr |-> <<"panic">>, exit |-> 2]
         ELSE [stdout |-> lines, stderr |-> <<>>, exit |-> 0]

\* WalkDir's stack without the listings that are used up.
RECURSIVE DropEmpty(_)
DropEmpty(frames) ==
    IF frames # <<>> /\ Head(frames) = <<>> THEN DropEmpty(Tail(frames))
    ELSE frames

\* ---------------------------------------------- SpecWalk: one run of main
\* The file contents of the enumerated trees: no code line, and ten.
FileBytes ==
    { <<"/", "/", "x">>,
      <<"x", NL, "x", NL, "x", NL, "x", NL, "x", NL,
        "x", NL, "x", NL, "x", NL, "x", NL, "x", NL>> }

\* The entry names of the enumerated trees: an ignored name, a name without
\* extension and one with a supported extension.
EntryNames == << <<".", "g", "i", "t">>, <<"d">>, <<"e", ".", "g", "o">> >>

RECURSIVE SizeOfAll(_)
RECURSIVE SizeOf(_)
SizeOf(e) == 1 + SizeOfAll(e.kids)
SizeOfAll(es) ==
    IF es = {} THEN 0
    ELSE LET e == CHOOSE x \in es : TRUE IN SizeOf(e) + SizeOfAll(es \ {e})

\* Every entry named n of at most b entries (itself and what is below it),
\* and every set of entries with names from ns of at most b entries.
RECURSIVE EntriesNamed(_, _)
RECURSIVE KidSets(_, _)
EntriesNamed(n, b) ==
    IF b < 1 THEN {}
    ELSE {Entry(n, "file", TRUE, c, {}) : c \in FileBytes}
         \cup { Entry(n, "file", FALSE, <<>>, {}), Entry(n, "link", FALSE, <<>>, {}),
                Entry(n, "dir", FALSE, <<>>, {}) }
         \cup {Entry(n, "dir", TRUE, <<>>, ks) : ks \in KidSets(EntryNames, b - 1)}
KidSets(ns, b) ==
    IF ns = <<>> THEN {{}}
    ELSE KidSets(Tail(ns), b)
         \cup UNION { {{e} \cup ks : ks \in KidSets(Tail(ns), b - SizeOf(e))} :
                       e \in EntriesNamed(Head(ns), b) }

\* The roots: the current directory, and a name that has a supported
\* extension and is one of the names of -i.
Roots == { <<".">>, <<"e", ".", "g", "o">> }

RootEntries(r) ==
    {NoEntry}
    \cup {Entry(r, "file", TRUE, c, {}) : c \in FileBytes}
    \cup { Entry(r, "file", FALSE, <<>>, {}), Entry(r, "link", FALSE, <<>>, {}),
           Entry(r, "dir", FALSE, <<>>, {}) }
    \cup {Entry(r, "dir", TRUE, <<>>, ks) : ks \in KidSets(EntryNames, MaxEntries)}

\* -i absent, and -i " d,e.go".
IgnoreFlags == { <<>>, <<SP, "d", ",", "e", ".", "g", "o">> }

IdleSloc ==
    /\ slocPath = <<>> /\ slocFile = Unreadable /\ slocRes = NoResult

InitWalk ==
    /\ IdleSloc
    /\ root \in Roots
    /\ tree \in RootEntries(root)
    /\ ignoreFlag \in IgnoreFlags
    /\ briefFlag \in BOOLEAN
    /\ ignore = builtinIgnore
    /\ pc = "main"
    /\ todo = <<>> /\ items = <<>> /\ total = 0 /\ pathMaxLen = 0
    /\ walkErr = Nil /\ ret = NoReturn /\ visited = <<>> /\ fsOps = <<>>
    /\ stdout = <<>> /\ stderr = <<>> /\ exitStatus = NotExited

Locals == [items |-> items, total |-> total, pathMaxLen |-> pathMaxLen]

Call(path, err, r) == [path |-> path, err |-> err, ret |-> r]

\* main.go:202-217 and WalkDir's os.Lstat(root): the flags are parsed, the
\* names of -i join ignore, walk starts; a root that cannot be stat'ed is
\* handed to the callback with the error.
MainStart ==
    /\ pc = "main"
    /\ ignore' = withIgnoreFlag(ignore, ignoreFlag)
    /\ fsOps' = <<[op |-> "Lstat", path |-> root, ok |-> tree.kind # "missing"]>>
    /\ items' = <<>> /\ total' = 0 /\ pathMaxLen' = 0
    /\ IF tree.kind = "missing"
       THEN LET r == walkFn(root, tree, "lstat", ignore', root,
                            [items |-> <<>>, total |-> 0, pathMaxLen |-> 0])
            IN  /\ walkErr' = (IF r.ret = "SkipDir" THEN Nil ELSE r.ret)
                /\ visited' = <<Call(root, "lstat", r.ret)>>
                /\ todo' = <<>>
       ELSE /\ walkErr' = Nil
            /\ visited' = <<>>
            /\ todo' = << <<[path |-> root, d |-> tree]>> >>
    /\ pc' = "walk"
    /\ UNCHANGED <<slocVars, root, tree, ignoreFlag, briefFlag, ret, stdout,
                   stderr, exitStatus>>

\* WalkDir's walkDir on the next pending entry: the callback, then for a
\* directory it did not refuse os.ReadDir, whose failure goes to the
\* callback in a second call; SkipDir skips a directory, and from another
\* entry the rest of its directory.
Visit ==
    /\ pc = "walk" /\ walkErr = Nil /\ todo # <<>>
    /\ LET e == Head(Head(todo))
           rest == <<Tail(Head(todo))>> \o Tail(todo)
           r1 == walkFn(e.path, e.d, Nil, ignore, root, Locals)
           c1 == Call(e.path, Nil, r1.ret)
           Set(st, err, calls, ops, frames) ==
               /\ items' = st.items /\ total' = st.total
               /\ pathMaxLen' = st.pathMaxLen
               /\ walkErr' = err
               /\ visited' = visited \o calls
               /\ fsOps' = fsOps \o ops
               /\ todo' = DropEmpty(frames)
       IN  IF r1.ret # Nil \/ e.d.kind # "dir"
           THEN IF r1.ret = "SkipDir" /\ e.d.kind = "dir"
                THEN Set(r1.st, Nil, <<c1>>, r1.ops, rest)
                ELSE IF r1.ret = "SkipDir"
                THEN Set(r1.st, Nil, <<c1>>, r1.ops, Tail(todo))
                ELSE Set(r1.st, r1.ret, <<c1>>, r1.ops, rest)
           ELSE LET rd == <<[op |-> "ReadDir", path |-> e.path, ok |-> e.d.ok]>> IN
                IF ~e.d.ok
                THEN LET r2 == walkFn(e.path, e.d, "readdir", ignore, root, r1.st)
                         c2 == Call(e.path, "readdir", r2.ret)
                     IN  Set(r2.st, IF r2.ret = "SkipDir" THEN Nil ELSE r2.ret,
                             <<c1, c2>>, r1.ops \o rd \o r2.ops, rest)
                ELSE Set(r1.st, Nil, <<c1>>, r1.ops \o rd,
                         <<ReadDir(e.path, e.d.kids)>> \o rest)
    /\ UNCHANGED <<slocVars, root, tree, ignoreFlag, briefFlag, ignore, pc, ret,
                   stdout, stderr, exitStatus>>

\* main.go:153-157: WalkDir is over, walk returns.
WalkReturn ==
    /\ pc = "walk"
    /\ walkErr # Nil \/ todo = <<>>
    /\ ret' = walkResult(items, total, pathMaxLen, walkErr)
    /\ pc' = "returned"
    /\ UNCHANGED <<slocVars, root, tree, ignoreFlag, briefFlag, ignore, todo, items,
                   total, pathMaxLen, walkErr, visited, fsOps, stdout, stderr,
                   exitStatus>>

Finish ==
    /\ stdout' = mainOutcome(ret, briefFlag).stdout
    /\ stderr' = mainOutcome(ret, briefFlag).stderr
    /\ exitStatus' = mainOutcome(ret, briefFlag).exit
    /\ pc' = "exited"
    /\ UNCHANGED <<slocVars, root, tree, ignoreFlag, briefFlag, ignore, todo, items,
                   total, pathMaxLen, walkErr, ret, visited, fsOps>>

\* main.go:218-220
MainFatal == pc = "returned" /\ ret.err # Nil /\ Finish

\* main.go:222-224
MainSilent == pc = "returned" /\ ret.err = Nil /\ Len(ret.items) = 0 /\ Finish

\* main.go:226-227
MainBrief ==
    pc = "returned" /\ ret.err = Nil /\ Len(ret.items) # 0 /\ briefFlag /\ Finish

\* main.go:228-230
MainPrint ==
    pc = "returned" /\ ret.err = Nil /\ Len(ret.items) # 0 /\ ~briefFlag /\ Finish

NextWalk ==
    \/ MainStart
    \/ Visit
    \/ WalkReturn
    \/ MainFatal
    \/ MainSilent
    \/ MainBrief
    \/ MainPrint

SpecWalk == InitWalk /\ [][NextWalk]_vars

\* --------------------------------------------- what the claims speak of
\* The lines of a text, as pairs <<a, b>>: the line is s[a+1 .. b-1], between
\* two neighbouring breaks (the text's ends and its newlines).
Breaks(s) == {0, Len(s) + 1} \cup {i \in 1..Len(s) : s[i] = NL}

Segments(s) ==
    {seg \in Breaks(s) \X Breaks(s) :
        /\ seg[1] < seg[2]
        /\ ~\E c \in Breaks(s) : seg[1] < c /\ c < seg[2]}

Ink(s, seg) == {k \in (seg[1] + 1)..(seg[2] - 1) : s[k] \notin WhiteSpace}

MinOf(S) == CHOOSE k \in S : \A j \in S : k <= j

Occurs(s, at, m) ==
    \A j \in 1..Len(m) : at + j - 1 <= Len(s) /\ s[at + j - 1] = m[j]

\* The line's first character that is not white space begins the marker m.
SegStartsWith(s, seg, m) ==
    /\ Ink(s, seg) # {}
    /\ m # <<>>
    /\ MinOf(Ink(s, seg)) + Len(m) - 1 < seg[2]
    /\ Occurs(s, MinOf(Ink(s, seg)), m)

\* Non-blank, and not a line that starts with the inline marker.
SegIsCode(s, seg, lang) ==
    /\ Ink(s, seg) # {}
    /\ (lang.inline = <<>> \/ ~SegStartsWith(s, seg, lang.inline))

CodeLines(s, lang) == Cardinality({seg \in Segments(s) : SegIsCode(s, seg, lang)})

\* A file of N >= 0 lines, each starting with the marker: every line does,
\* but for the empty piece after a final newline (or of an empty file).
OnlyCommentLines(s, m) ==
    \A seg \in Segments(s) :
        \/ SegStartsWith(s, seg, m)
        \/ (seg[2] = Len(s) + 1 /\ seg[1] = Len(s))

\* The block-comment regions of s, as pairs <<first, last>> of positions:
\* among the candidates (a block start and the nearest block end that begins
\* after it), the non-overlapping ones a left-to-right scan takes, that is
\* every candidate not taken begins inside a region that is.
Candidates(s, lang) ==
    {<<i, MinOf({q \in (i + Len(lang.start))..Len(s) : Occurs(s, q, lang.end)})
            + Len(lang.end) - 1>> :
        i \in {i \in 1..Len(s) :
                 /\ Occurs(s, i, lang.start)
                 /\ \E q \in (i + Len(lang.start))..Len(s) : Occurs(s, q, lang.end)}}

IsScan(R, C) ==
    /\ \A r1, r2 \in R : r1 = r2 \/ r1[2] < r2[1] \/ r2[2] < r1[1]
    /\ \A c \in C \ R : \E r \in R : r[1] < c[1] /\ c[1] <= r[2]

Regions(s, lang) ==
    IF lang.start = <<>> \/ lang.end = <<>> THEN {}
    ELSE CHOOSE R \in SUBSET Candidates(s, lang) : IsScan(R, Candidates(s, lang))

\* s without the positions in D.
Without(s, D) ==
    LET Keep == (1..Len(s)) \ D
        nth(k) == CHOOSE p \in Keep : Cardinality({q \in Keep : q <= p}) = k
    IN  [k \in 1..Cardinality(Keep) |-> s[nth(k)]]

Deleted(s, lang) ==
    Without(s, UNION {r[1]..r[2] : r \in Regions(s, lang)})

slocLang == supported[Ext(slocPath)]
slocCounted == slocRes # NoResult /\ slocRes.err = Nil

\* C5: a file whose lines all start (after trimming) with the language's
\* line-comment marker yields count 0, whatever follows the marker.
C5_CommentLinesCountZero ==
    (slocCounted /\ slocLang.inline # <<>>
        /\ OnlyCommentLines(slocFile.bytes, slocLang.inline))
    => slocRes.count = 0

\* C6: sloc returns the number of lines of the block-stripped text that are
\* non-blank after trimming and do not start with the inline marker (no line
\* does when the marker is empty); so white space only yields 0 and a line
\* of code with a trailing comment counts.
C6_CountIsCodeLines ==
    slocCounted =>
        /\ slocRes.count = CodeLines(StripBlocks(slocFile.bytes, slocLang), slocLang)
        /\ (\A k \in 1..Len(slocFile.bytes) : slocFile.bytes[k] \in WhiteSpace)
              => slocRes.count = 0
        /\ slocLang.inline = <<>>
              => slocRes.count =
                    Cardinality({seg \in Segments(StripBlocks(slocFile.bytes, slocLang)) :
                                    Ink(StripBlocks(slocFile.bytes, slocLang), seg) # {}})
        /\ slocFile.bytes = <<"x", SP>> \o slocLang.inline \o <<SP, "y">>
              => slocRes.count = 1

C6_Witness ==
    /\ slocCounted
    /\ slocLang.inline # <<>>
    /\ slocRes.count = 1
    /\ \E seg \in Segments(slocFile.bytes) : Ink(slocFile.bytes, seg) = {}
    /\ \E seg \in Segments(slocFile.bytes) :
          SegStartsWith(slocFile.bytes, seg, slocLang.inline)

\* C7: sloc classifies the text left when every block-comment region, taken
\* left to right from a block start to the nearest following block end, is
\* deleted (nothing when a delimiter is empty); code around a comment on
\* lines 2-4 counts 2, a file that is one block comment counts 0.
C7_BlockRegionsDeleted ==
    slocCounted =>
        /\ StripBlocks(slocFile.bytes, slocLang) = Deleted(slocFile.bytes, slocLang)
        /\ slocRes.count = CodeLines(Deleted(slocFile.bytes, slocLang), slocLang)
        /\ (slocLang.start = <<>> \/ slocLang.end = <<>>)
              => Deleted(slocFile.bytes, slocLang) = slocFile.bytes
        /\ (slocLang.start # <<>> /\ slocLang.end # <<>>) =>
              /\ slocFile.bytes = <<"x", NL>> \o slocLang.start \o <<NL, "x", NL>>
                                    \o slocLang.end \o <<NL, "x">>
                    => slocRes.count = 2
              /\ slocFile.bytes = slocLang.start \o <<SP, "x", NL, SP, "x", SP>>
                                    \o slocLang.end
                    => slocRes.count = 0

C7_Witness ==
    /\ slocCounted
    /\ slocLang.start # <<>> /\ slocLang.end # <<>>
    /\ slocFile.bytes = <<"x", NL>> \o slocLang.start \o <<NL, "x", NL>>
                          \o slocLang.end \o <<NL, "x">>
    /\ Cardinality(Regions(slocFile.bytes, slocLang)) = 1
    /\ slocRes.count = 2

\* --------------------------------------------- claims about walk and main
\* The entries of the tree, each with the names from the root down to it.
RECURSIVE Under(_, _)
Under(d, names) ==
    {[d |-> d, names |-> names]}
    \cup UNION {Under(k, Append(names, k.name)) : k \in d.kids}

AllEntries == IF tree.kind = "missing" THEN {} ELSE Under(tree, <<root>>)

RECURSIVE JoinSlash(_)
JoinSlash(names) ==
    IF Len(names) = 1 THEN names[1]
    ELSE names[1] \o <<SLASH>> \o JoinSlash(Tail(names))

\* The path WalkDir gives an entry, and its path relative to the root.
FullPath(names) ==
    IF Len(names) > 1 /\ names[1] = <<DOT>> THEN JoinSlash(Tail(names))
    ELSE JoinSlash(names)

RelPath(names) == IF Len(names) = 1 THEN <<DOT>> ELSE JoinSlash(Tail(names))

IgnoreSet == {ignore[k] : k \in 1..Len(ignore)}

IgnoredSelfOrAbove(e) == \E k \in 1..Len(e.names) : e.names[k] \in IgnoreSet

BelowIgnored(e) == \E k \in 1..(Len(e.names) - 1) : e.names[k] \in IgnoreSet

HasSupportedExt(name) ==
    LET dots == {k \in 1..Len(name) : name[k] = DOT} IN
    /\ dots # {}
    /\ SubSeq(name, CHOOSE k \in dots : \A j \in dots : j <= k, Len(name))
          \in DOMAIN supported

ItemPaths(its) == {its[k].path : k \in 1..Len(its)}

RECURSIVE SumSloc(_)
SumSloc(its) == IF its = <<>> THEN 0 ELSE Head(its).sloc + SumSloc(Tail(its))

MaxPathLen(its) ==
    IF its = <<>> THEN 0
    ELSE CHOOSE m \in {Len(p) : p \in ItemPaths(its)} :
            \A p \in ItemPaths(its) : Len(p) <= m

Returned == pc \in {"returned", "exited"}

\* C1: after every visited entry, and in what a walk without error returns,
\* total is the sum of the items' sloc and pathMaxLen the greatest length of
\* an item's path (0 without items); an empty directory gives no items, 0.
C1_TotalsMatchItems ==
    /\ total = SumSloc(items)
    /\ pathMaxLen = MaxPathLen(items)
    /\ (Returned /\ ret.err = Nil) =>
          /\ ret.total = SumSloc(ret.items)
          /\ ret.pathMaxLen = MaxPathLen(ret.items)
          /\ ret.items = items
          /\ (tree.kind = "dir" /\ tree.kids = {})
                => (ret.items = <<>> /\ ret.total = 0)

C1_Witness ==
    /\ Returned /\ ret.err = Nil
    /\ Len(ret.items) = 2
    /\ Len(ret.items[2].path) < Len(ret.items[1].path)
    /\ ret.items[1].sloc = 10 /\ ret.total = 20

\* C2: nothing at or below an ignored name is ever an item or is ever read
\* or listed, nothing below an ignored directory is ever visited, and total
\* holds the items' lines only.
C2_IgnoredNeverCounted ==
    /\ \A e \in AllEntries :
          /\ IgnoredSelfOrAbove(e) =>
                /\ RelPath(e.names) \notin ItemPaths(items) \cup ItemPaths(ret.items)
                /\ ~\E k \in 1..Len(fsOps) :
                      /\ fsOps[k].op \in {"ReadFile", "ReadDir"}
                      /\ fsOps[k].path = FullPath(e.names)
          /\ BelowIgnored(e) =>
                ~\E k \in 1..Len(visited) : visited[k].path = FullPath(e.names)
    /\ total = SumSloc(items)
    /\ ret.total = SumSloc(ret.items)

C2_Witness ==
    /\ pc = "exited" /\ exitStatus = 0
    /\ ret.items # <<>>
    /\ \E e \in AllEntries :
          /\ BelowIgnored(e)
          /\ e.d.kind = "file" /\ e.d.ok /\ HasSupportedExt(e.d.name)
          /\ e.d.name \notin IgnoreSet

\* The entry the walk visits next, when there is one.
Next1 == Head(Head(todo))

\* C3: a regular file without a supported extension is not read by sloc,
\* which returns (0, unsupported) whether or not the file could be read, and
\* the visit changes neither items, total nor pathMaxLen, fails nothing and
\* leaves the rest of the traversal to do.
C3_UnsupportedIsSkipped ==
    [][ ( /\ pc = "walk" /\ walkErr = Nil /\ todo # <<>>
          /\ Next1.d.kind = "file"
          /\ ~HasSupportedExt(Next1.d.name) )
        => ( /\ sloc(Next1.path, [ok |-> Next1.d.ok, bytes |-> Next1.d.bytes])
                  = [count |-> 0, err |-> "unsupported", read |-> FALSE]
             /\ items' = items /\ total' = total /\ pathMaxLen' = pathMaxLen
             /\ walkErr' = Nil
             /\ fsOps' = fsOps
             /\ visited' = Append(visited, Call(Next1.path, Nil, Nil))
             /\ todo' = DropEmpty(<<Tail(Head(todo))>> \o Tail(todo))
             /\ pc' = "walk" ) ]_vars

C3_Witness ==
    /\ pc = "exited" /\ exitStatus = 0
    /\ \E e \in AllEntries :
          /\ e.d.kind = "file" /\ ~e.d.ok
          /\ ~HasSupportedExt(e.d.name) /\ ~IgnoredSelfOrAbove(e)
          /\ \E i \in 1..Len(visited) :
                /\ visited[i].path = FullPath(e.names)
                /\ \E j \in (i + 1)..Len(visited) :
                      \E k \in 1..Len(items) :
                          /\ items[k].path = Rel(root, visited[j].path)
                          /\ items[k].sloc = 10

\* C4: a file-system call fails if and only if the walk fails; the failed
\* call is the last call made and the only failed one, its entry the last
\* one visited; sloc gives 0 and an error for an unreadable file with a
\* supported extension; and walk returns no items, 0, 0 and the error.
C4_FaultIsFatal ==
    LET failed == {k \in 1..Len(fsOps) : ~fsOps[k].ok} IN
    /\ (walkErr # Nil) <=> (failed # {})
    /\ failed # {} =>
          /\ failed = {Len(fsOps)}
          /\ visited[Len(visited)].path = fsOps[Len(fsOps)].path
          /\ visited[Len(visited)].ret = walkErr
    /\ (Returned /\ walkErr # Nil) =>
          ret = [items |-> <<>>, total |-> 0, pathMaxLen |-> 0, err |-> walkErr]
    /\ Returned => (ret.err = walkErr)
    /\ \A e \in AllEntries :
          (e.d.kind = "file" /\ ~e.d.ok /\ HasSupportedExt(e.d.name)) =>
              LET r == sloc(FullPath(e.names), [ok |-> FALSE, bytes |-> <<>>]) IN
              r.count = 0 /\ r.err \notin {Nil, "unsupported"}

C4_Witness ==
    /\ pc = "exited"
    /\ walkErr # Nil
    /\ items # <<>> /\ total > 0
    /\ ret.items = <<>> /\ ret.total = 0

\* C8: a run ends in one of three ways: the scan failed, the error is on the
\* diagnostic stream, nothing on standard output, status nonzero; no file
\* matched, nothing is printed, status 0; otherwise the table, or in brief
\* mode the total alone, is printed, status 0.
C8_ThreeOutcomes ==
    /\ pc # "exited" => (stdout = <<>> /\ stderr = <<>> /\ exitStatus = NotExited)
    /\ pc = "exited" =>
          IF ret.err # Nil
          THEN stdout = <<>> /\ stderr = <<ret.err>> /\ exitStatus > 0
          ELSE IF ret.items = <<>>
          THEN stdout = <<>> /\ stderr = <<>> /\ exitStatus = 0
          ELSE /\ stderr = <<>> /\ exitStatus = 0
               /\ briefFlag =>
                     /\ Len(stdout) = 1
                     /\ stdout[1].kind = "total" /\ stdout[1].sloc = ret.total
               /\ ~briefFlag =>
                     /\ Len(stdout) = Len(ret.items) + 4
                     /\ \A k \in 1..Len(ret.items) :
                           /\ stdout[k + 1].kind = "row"
                           /\ stdout[k + 1].path = ret.items[k].path
                           /\ stdout[k + 1].sloc = ret.items[k].sloc
                     /\ stdout[Len(stdout) - 1].path = TotalLabel
                     /\ stdout[Len(stdout) - 1].sloc = ret.total

C8_Witness ==
    /\ pc = "exited" /\ exitStatus = 0
    /\ briefFlag
    /\ Len(ret.items) = 2 /\ ret.total = 0
    /\ Len(stdout) = 1 /\ stdout[1].sloc = 0

\* C9: after a walk without error the items are exactly the regular files
\* with a supported extension that have no ignored name on their way from
\* the root, root included, one item each, by their path relative to the
\* root, in depth-first order with each directory's names in byte order.
LexLess(a, b, lt(_, _)) ==
    \E k \in 1..Len(b) :
        /\ \A j \in 1..(k - 1) : j <= Len(a) /\ a[j] = b[j]
        /\ (k > Len(a) \/ lt(a[k], b[k]))

ByteLess(c1, c2) == ByteOf(c1) < ByteOf(c2)
NameLess(n1, n2) == LexLess(n1, n2, ByteLess)

Matched ==
    {e \in AllEntries :
        /\ e.d.kind = "file"
        /\ HasSupportedExt(e.d.name)
        /\ ~IgnoredSelfOrAbove(e)}

C9_ItemsAreTheSupportedFiles ==
    (Returned /\ ret.err = Nil) =>
        /\ Len(ret.items) = Cardinality(Matched)
        /\ ItemPaths(ret.items) = {RelPath(e.names) : e \in Matched}
        /\ \A i, j \in 1..Len(ret.items) :
              i < j =>
                \E e1, e2 \in Matched :
                    /\ ret.items[i].path = RelPath(e1.names)
                    /\ ret.items[j].path = RelPath(e2.names)
                    /\ LexLess(e1.names, e2.names, NameLess)

C9_Witness ==
    /\ Returned /\ ret.err = Nil
    /\ root # <<DOT>>
    /\ Len(ret.items) = 2
    /\ ret.items[1].path = <<"d", SLASH, "e", DOT, "g", "o">>
    /\ ret.items[2].path = <<"e", DOT, "g", "o">>

\* C10: when the table is printed no count handed to strings.Repeat is
\* negative: no path is longer than the width main passes, which is at least
\* the length of "Total", and no sloc has more digits than the total.
C10_PadsNonNegative ==
    /\ (Returned /\ ret.err = Nil) =>
          \A k \in 1..Len(ret.items) :
              /\ 0 <= ret.items[k].sloc /\ ret.items[k].sloc <= ret.total
              /\ intlen(ret.items[k].sloc) <= intlen(ret.total)
              /\ Len(ret.items[k].path) <= ret.pathMaxLen
    /\ (pc = "exited" /\ ret.err = Nil /\ ret.items # <<>> /\ ~briefFlag) =>
          /\ exitStatus = 0
          /\ Len(stdout) = Len(ret.items) + 4
          /\ \A k \in 1..Len(stdout) :
                \A j \in 1..Len(stdout[k].repeats) : stdout[k].repeats[j] >= 0
          /\ stdout[Len(stdout) - 1].repeats[1]
                = (IF ret.pathMaxLen > 5 THEN ret.pathMaxLen ELSE 5) - 5

C10_Witness ==
    /\ pc = "exited" /\ exitStatus = 0 /\ ~briefFlag
    /\ ret.pathMaxLen < 5
    /\ Len(stdout) = 5
    /\ stdout[2].repeats = <<1, 0>>
    /\ stdout[4].repeats = <<0, 0>>
    /\ stdout[4].sloc = 10

====
